---------------------------- MODULE Spec2Model ----------------------------
(***************************************************************************)
(* AutoMLWhitebox (autowoe): the interpretable refit engine of             *)
(* autowoe/lib/utilities/refit.py.                                         *)
(*                                                                         *)
(*   refit_simple  StatisticalRefit: Wald backward elimination             *)
(*   refit_reg     RegularizedRefit: L1 path search                        *)
(*                                                                         *)
(* The design matrix itself is not represented.  What an external fit      *)
(* (sklearn LogisticRegression.fit, numpy.linalg.inv, sklearn l1_min_c)    *)
(* returns is a nondeterministic choice over small integer domains; every  *)
(* mask is fitted at most once in a run, so a choice at each fit is the    *)
(* same as a fixed data set chosen up front.  Everything refit.py itself   *)
(* computes from those results is computed here the way the code does.     *)
(*                                                                         *)
(* Numbers: coefficients and variances are small integers; p-values are    *)
(* in per-mille (0.05 is 50).  Array positions are 1-based here and        *)
(* 0-based in the code.  NaN and infinities are not represented.           *)
(*                                                                         *)
(* The data are taken to be valid for the library (finite values, both     *)
(* classes present, X_val with the columns of X), so that a fit itself     *)
(* does not raise; numpy.linalg.inv raises LinAlgError on a singular       *)
(* Hessian, which valid data (collinear columns) can produce.  Assertions  *)
(* are enabled.                                                            *)
(*                                                                         *)
(* pc follows the states of the refit loop: FIT is the head of an          *)
(* iteration up to clf.fit, CHECK_SIGN, CHECK_PVALUE and CHECK_VALIDATION  *)
(* are the three checks, DONE is the return and FAILED an exception that   *)
(* leaves the call.  refit_reg goes GRID, PATH, SELECT.                    *)
(***************************************************************************)
EXTENDS Integers, Sequences, FiniteSets, TLC

VARIABLES
    arg,            \* the call: function name and its arguments
    pc,             \* position of the call
    err,            \* "" or the name of the exception that ended the call
    ret,            \* <<>> or the returned tuple
    \* ---- locals of refit_simple
    sl_ok,          \* keep-mask over the columns of X
    n,              \* iteration counter
    ok_idx,         \* indices (in X) of the columns of X_
    coef,           \* clf.coef_[0]
    intercept,      \* clf.intercept_[0]
    p_vals,         \* p_vals
    b_var,          \* b_var
    model_p_vals,   \* model_p_vals
    model_b_var,    \* model_b_var
    x_val_cols,     \* indices (in X_val) of the columns of X_val_
    fits,           \* history: number of clf.fit calls made (line 71)
    H,              \* calc_p_val's H at line 124: "none", "regular" or "singular"
    \* ---- locals of refit_reg
    cs,             \* cs
    weights,        \* weights
    intercepts,     \* intercepts
    \* ---- the AutoWoE object (self.*) and the locals of AutoWoE.fit
    call,                   \* the fit call: settings of the object and facts of the data
    fit_pc,                 \* position of the fit call
    fit_err,                \* "" or the name of the exception that left fit
    features_fit,           \* self.features_fit
    _weights,               \* self._weights
    _intercept,             \* self._intercept
    _p_vals,                \* self._p_vals
    feature_history,        \* self.feature_history
    private_features_type,  \* keys of self._private_features_type, in dict order
    tree_dict_opt,          \* self._tree_dict_opt
    features_monotone_constraints,  \* self.features_monotone_constraints
    split_dict,             \* self.split_dict
    woe_dict,               \* self.woe_dict
    enc,                    \* locals of _train_encoding: woe_dict, woe_list, woe
    result,                 \* result (lines 460-464)
    pool,                   \* the multiprocessing.Pool of line 459
    best_features,          \* best_features (line 491)
    valid_enc,              \* valid_enc (lines 500-502)
    refit_call              \* the call of refit_reg / refit_simple made by _clf_fit

vars == <<arg, pc, err, ret, sl_ok, n, ok_idx, coef, intercept, p_vals, b_var,
          model_p_vals, model_b_var, x_val_cols, fits, H, cs, weights, intercepts,
          call, fit_pc, fit_err, features_fit, _weights, _intercept, _p_vals,
          feature_history, private_features_type, tree_dict_opt,
          features_monotone_constraints, split_dict,
          woe_dict, enc, result, pool, best_features, valid_enc, refit_call>>

simpleVars == <<sl_ok, n, ok_idx, coef, intercept, p_vals, b_var,
                model_p_vals, model_b_var, x_val_cols, fits, H>>

regVars == <<cs, weights, intercepts>>

woeVars == <<call, fit_pc, fit_err, features_fit, _weights, _intercept, _p_vals,
             feature_history, private_features_type, tree_dict_opt,
             features_monotone_constraints, split_dict,
             woe_dict, enc, result, pool, best_features, valid_enc, refit_call>>

\* Python None
None == [kind |-> "None"]

\* the attributes __init__ leaves on the object
Constructed ==
    /\ features_fit = None
    /\ _weights = None
    /\ _intercept = None
    /\ _p_vals = None
    /\ feature_history = None
    /\ private_features_type = None
    /\ split_dict = None
    /\ woe_dict = None

\* a refit function called on its own: no AutoWoE.fit in progress
NoFit ==
    /\ Constructed
    /\ call = None
    /\ fit_pc = "IDLE"
    /\ fit_err = ""
    /\ tree_dict_opt = None
    /\ features_monotone_constraints = None
    /\ enc = None
    /\ result = <<>>
    /\ pool = None
    /\ best_features = <<>>
    /\ valid_enc = None
    /\ refit_call = None

---------------------------------------------------------------------------
(* Bounds of the model and value domains of the external results.          *)

\* largest number of columns of X given to refit_simple
MaxCols == 2

\* largest number of columns of X given to refit_reg
MaxRegCols == 2

\* largest l1_base_step (number of grid points) given to refit_reg
MaxGrid == 2

\* refit_simple's default significance threshold, 0.05, in per-mille
DefaultPVal == 50

\* values a fitted coefficient of the unpenalized model can take
CoefVals == {-2, -1, 0, 1}

\* values the intercept of an unpenalized fit can take
InterceptVals == {-1}

\* values a diagonal entry of the inverse Hessian can take
VarVals == {1, 2}

\* significance thresholds tried: the default and a looser one
PValThresholds == {DefaultPVal, 4 * DefaultPVal}

---------------------------------------------------------------------------
(* Python values.                                                          *)

\* a name not bound yet
Unbound == [kind |-> "unbound", val |-> <<>>]

\* an ndarray object
NdArray(a) == [kind |-> "ndarray", val |-> a]

\* the bound method a.copy (not called): an object that is no array
BoundCopyMethod(a) == [kind |-> "method", val |-> a]

\* a.copy()
Copy(a) == a

---------------------------------------------------------------------------
(* numpy helpers.                                                          *)

\* np.ones(k, dtype=bool)
Ones(k) == [i \in 1..k |-> TRUE]

\* mask.sum()
Sum(mask) == Cardinality({i \in 1..Len(mask) : mask[i]})

\* np.arange(len(mask))[mask]
Arange(mask) == SelectSeq([i \in 1..Len(mask) |-> i], LAMBDA i : mask[i])

\* a.max()
Max(a) == CHOOSE m \in {a[i] : i \in 1..Len(a)} : \A i \in 1..Len(a) : a[i] <= m

\* mutant of ArgMax: a.argmin() written for a.argmax()
ArgMin(a) == CHOOSE i \in 1..Len(a) :
                /\ \A j \in 1..Len(a) : a[i] <= a[j]
                /\ \A j \in 1..(i - 1) : a[i] < a[j]

\* a.argmax(): the first position of the maximum
ArgMax(a) == CHOOSE i \in 1..Len(a) :
                /\ \A j \in 1..Len(a) : a[j] <= a[i]
                /\ \A j \in 1..(i - 1) : a[j] < a[i]

\* a[:-1]
ButLast(a) == SubSeq(a, 1, Len(a) - 1)

\* w[sel] for a boolean sel of the same length
Take(w, sel) == LET idx == Arange(sel) IN [k \in 1..Len(idx) |-> w[idx[k]]]

---------------------------------------------------------------------------
(* calc_p_val.                                                             *)

\* 1 - stats.chi2(1).cdf(s) in per-mille, for the integer part s of the
\* Wald statistic
Chi2Sf(s) ==
    CASE s <= 0 -> 1000
      [] s = 1 -> 317
      [] s = 2 -> 157
      [] s = 3 -> 83
      [] s = 4 -> 46
      [] s = 5 -> 25
      [] s = 6 -> 14
      [] s = 7 -> 8
      [] s = 8 -> 5
      [] OTHER -> 3

\* Wstat = (coef_ ** 2) / b_var, one entry (integer part)
Wstat(c, v) == (c * c) \div v

\* calc_p_val's p_vals for weights, intercept and the diagonal bv of the
\* inverse Hessian: coef_ is weights with the intercept appended
CalcPVal(w, i, bv) ==
    LET coef_ == Append(w, i)
    IN  [k \in 1..Len(coef_) |-> Chi2Sf(Wstat(coef_[k], bv[k]))]

\* the diagonals np.linalg.inv can return for k coefficients and the
\* intercept (the call raises LinAlgError instead when H is singular)
BVars(k) == [1..(k + 1) -> VarVals]

\* a variance that is no finite positive number
UndefinedVar == 0 - 1

\* the inverse is computed whatever H is
InvReturns(singular) == FALSE

\* line 124: np.linalg.inv(H) raises LinAlgError when H is singular
InvRaises(singular) == singular

\* line 125: Hinv.diagonal(), for an inverse that was computed
Diagonals(k, singular) ==
    IF singular THEN {[j \in 1..(k + 1) |-> UndefinedVar]} ELSE BVars(k)

---------------------------------------------------------------------------
(* refit_simple.                                                           *)

\* line 61: the condition asserted at the head of every iteration
\* mutant of HasFeatures: >= written for >
HasFeaturesOrNone(mask) == Sum(mask) >= 0

HasFeatures(mask) == Sum(mask) > 0

\* mutant of SlPosCoef: > 0 written for >= 0
SlPosCoefStrict(c, interp) ==
    IF interp THEN [k \in 1..Len(c) |-> c[k] > 0]
              ELSE [k \in 1..Len(c) |-> FALSE]

\* sl_pos_coef: which coefficients have the disallowed sign
SlPosCoef(c, interp) ==
    IF interp THEN [k \in 1..Len(c) |-> c[k] >= 0]
              ELSE [k \in 1..Len(c) |-> FALSE]

\* mutant of Drop: sl_ok[k] = False, the position in X_ taken for the
\* position in X
DropDirect(mask, idx, k) == [mask EXCEPT ![k] = FALSE]

\* sl_ok[ok_idx[k]] = False
Drop(mask, idx, k) == [mask EXCEPT ![idx[k]] = FALSE]

\* mutant of PValTooHigh: only the first p-value is compared
PValTooHighFirst(pv, p_val) == pv[1] > p_val

\* p_vals_f.max() > p_val, for p_vals_f = p_vals[:-1]
PValTooHigh(pv, p_val) == Max(ButLast(pv)) > p_val

\* the tuple returned at line 112
SimpleReturn(c, i, mask, mpv, mbv) == <<c, i, mask, mpv, mbv>>

\* an exception leaves the call
Raise(e) ==
    /\ pc' = "FAILED"
    /\ err' = e
    /\ ret' = ret

\* lines 60-71: start of an iteration: the assertion, X_, ok_idx, clf.fit
Fit ==
    /\ arg.fn = "refit_simple"
    /\ pc = "FIT"
    /\ n' = n + 1
    /\ IF HasFeatures(sl_ok)
       THEN /\ ok_idx' = Arange(sl_ok)
            /\ \E c \in [1..Sum(sl_ok) -> CoefVals], i \in InterceptVals :
                  /\ coef' = c
                  /\ intercept' = i
            /\ fits' = fits + 1
            /\ pc' = "CHECK_SIGN"
            /\ UNCHANGED <<err, ret>>
       ELSE /\ Raise("AssertionError")
            /\ UNCHANGED <<ok_idx, coef, intercept, fits>>
    /\ UNCHANGED <<arg, sl_ok, p_vals, b_var, model_p_vals, model_b_var,
                   x_val_cols>>
    /\ UNCHANGED H
    /\ UNCHANGED <<regVars, woeVars>>

\* mutant of CheckSign: the continue after the drop is missing, and the
\* iteration goes on to the p-values
CheckSignNoContinue ==
    /\ arg.fn = "refit_simple"
    /\ pc = "CHECK_SIGN"
    /\ LET sl_pos_coef == SlPosCoef(coef, arg.interp)
       IN  IF Sum(sl_pos_coef) > 0
           THEN sl_ok' = Drop(sl_ok, ok_idx, ArgMax(coef))
           ELSE sl_ok' = sl_ok
    /\ pc' = "CHECK_PVALUE"
    /\ UNCHANGED <<arg, err, ret, n, ok_idx, coef, intercept, p_vals, b_var,
                   model_p_vals, model_b_var, x_val_cols, fits>>
    /\ UNCHANGED H
    /\ UNCHANGED <<regVars, woeVars>>

\* lines 74-82: the sign check
CheckSign ==
    /\ arg.fn = "refit_simple"
    /\ pc = "CHECK_SIGN"
    /\ LET sl_pos_coef == SlPosCoef(coef, arg.interp)
       IN  IF Sum(sl_pos_coef) > 0
           THEN /\ sl_ok' = Drop(sl_ok, ok_idx, ArgMax(coef))
                /\ pc' = "FIT"
           ELSE /\ sl_ok' = sl_ok
                /\ pc' = "CHECK_PVALUE"
    /\ UNCHANGED <<arg, err, ret, n, ok_idx, coef, intercept, p_vals, b_var,
                   model_p_vals, model_b_var, x_val_cols, fits>>
    /\ UNCHANGED H
    /\ UNCHANGED <<regVars, woeVars>>

\* lines 85-96 and 98, 112: the Wald p-values of the training fit
CheckPvalue ==
    /\ arg.fn = "refit_simple"
    /\ pc = "CHECK_PVALUE"
    /\ \E singular \in BOOLEAN :
       /\ H' = IF singular THEN "singular" ELSE "regular"
       /\ IF InvRaises(singular)
          THEN /\ Raise("LinAlgError")
               /\ UNCHANGED <<sl_ok, p_vals, b_var, model_p_vals, model_b_var>>
          ELSE \E bv \in Diagonals(Len(coef), singular) :
             LET pv == CalcPVal(coef, intercept, bv)
             IN  /\ p_vals' = pv
                 /\ b_var' = bv
                 /\ model_p_vals' = Copy(pv)
                 /\ model_b_var' = BoundCopyMethod(bv)
                 /\ IF PValTooHigh(pv, arg.p_val)
                    THEN /\ sl_ok' = Drop(sl_ok, ok_idx, ArgMax(ButLast(pv)))
                         /\ pc' = "FIT"
                         /\ UNCHANGED <<err, ret>>
                    ELSE /\ sl_ok' = sl_ok
                         /\ IF arg.X_val
                            THEN /\ pc' = "CHECK_VALIDATION"
                                 /\ UNCHANGED <<err, ret>>
                            ELSE /\ pc' = "DONE"
                                 /\ ret' = SimpleReturn(coef, intercept, sl_ok,
                                                         Copy(pv),
                                                         BoundCopyMethod(bv))
                                 /\ err' = err
    /\ UNCHANGED <<arg, n, ok_idx, coef, intercept, x_val_cols, fits>>
    /\ UNCHANGED <<regVars, woeVars>>

\* lines 100-112: the same check on a model fitted on the validation set
\* (calc_p_val_on_valid, lines 133-138)
CheckValidation ==
    /\ arg.fn = "refit_simple"
    /\ pc = "CHECK_VALIDATION"
    /\ x_val_cols' = Arange(sl_ok)
    /\ \E singular \in BOOLEAN :
       /\ H' = IF singular THEN "singular" ELSE "regular"
       /\ IF InvRaises(singular)
          THEN /\ Raise("LinAlgError")
               /\ UNCHANGED <<sl_ok, p_vals, b_var>>
          ELSE \E c \in [1..Sum(sl_ok) -> CoefVals], i \in InterceptVals,
                  bv \in Diagonals(Sum(sl_ok), singular) :
             LET pv == CalcPVal(c, i, bv)
             IN  /\ p_vals' = pv
                 /\ b_var' = bv
                 /\ IF PValTooHigh(pv, arg.p_val)
                    THEN /\ sl_ok' = Drop(sl_ok, ok_idx, ArgMax(ButLast(pv)))
                         /\ pc' = "FIT"
                         /\ UNCHANGED <<err, ret>>
                    ELSE /\ sl_ok' = sl_ok
                         /\ pc' = "DONE"
                         /\ ret' = SimpleReturn(coef, intercept, sl_ok,
                                                 model_p_vals, model_b_var)
                         /\ err' = err
    /\ UNCHANGED <<arg, n, ok_idx, coef, intercept, model_p_vals,
                   model_b_var, fits>>
    /\ UNCHANGED <<regVars, woeVars>>

\* the arguments refit_simple is called with
SimpleArgs ==
    [fn : {"refit_simple"}, ncols : 0..MaxCols, interp : BOOLEAN,
     p_val : PValThresholds, X_val : BOOLEAN]

\* lines 55-57: the state on entry to the loop
InitSimple ==
    /\ arg \in SimpleArgs
    /\ pc = "FIT"
    /\ err = ""
    /\ ret = <<>>
    /\ sl_ok = Ones(arg.ncols)
    /\ n = -1
    /\ ok_idx = <<>>
    /\ coef = <<>>
    /\ intercept = 0
    /\ p_vals = <<>>
    /\ b_var = <<>>
    /\ model_p_vals = <<>>
    /\ model_b_var = Unbound
    /\ x_val_cols = <<>>
    /\ fits = 0
    /\ H = "none"
    /\ cs = <<>>
    /\ weights = <<>>
    /\ intercepts = <<>>
    /\ NoFit

NextSimple == Fit \/ CheckSign \/ CheckPvalue \/ CheckValidation

SpecSimple == InitSimple /\ [][NextSimple]_vars

\* the interpreter runs a started call to its end
FairSimple == SpecSimple /\ WF_vars(NextSimple)

---------------------------------------------------------------------------
(* refit_reg.                                                              *)

\* values a coefficient of an L1-penalized fit can take (zero: pruned)
RegCoefVals == {-1, 0, 1}

\* values the intercept of an L1-penalized fit can take
RegInterceptVals == {-1, 1}

\* values sklearn's l1_min_c can return
MinCVals == {2}

\* max_penalty values tried: below, on, between and above the grid points
MaxPenaltyVals == {1, 2, 7, 20, 50, 200}

RECURSIVE Pow10(_)
\* 10 ** k
Pow10(k) == IF k <= 0 THEN 1 ELSE 10 * Pow10(k - 1)

\* np.logspace(0, stop, num), for stop a multiple of num - 1 (so that the
\* values are integers): 10 ** linspace(0, stop, num)
Logspace(stop, num) ==
    [i \in 1..num |-> Pow10(IF num = 1 THEN 0 ELSE (i - 1) * (stop \div (num - 1)))]

\* line 16: l1_min_c(X, y) * np.logspace(0, l1_exp_step, l1_base_step)
Grid(c_min, stop, num) ==
    LET g == Logspace(stop, num) IN [i \in 1..num |-> c_min * g[i]]

\* line 17: cs[cs <= max_penalty]
AtMost(g, max_penalty) == SelectSeq(g, LAMBDA c : c <= max_penalty)

\* the kept grid is the path
NoFinal(g, max_penalty) == g

\* lines 18-21: the final penalty is added when the kept grid ends below it
AddFinal(g, max_penalty) ==
    IF g[Len(g)] < max_penalty THEN Append(g, max_penalty) ELSE g

\* mutant of Reverse: the path is scanned in the order it was fitted
Forward(a) == a

\* a[::-1]
Reverse(a) == [k \in 1..Len(a) |-> a[Len(a) + 1 - k]]

\* (w > 0).sum()
Pos(w) == Cardinality({k \in 1..Len(w) : w[k] > 0})

\* w < 0
Neg(w) == [k \in 1..Len(w) |-> w[k] < 0]

\* w != 0
NonZero(w) == [k \in 1..Len(w) |-> w[k] # 0]

\* mutant of Scan: the test of the positive coefficients is missing
ScanUnchecked(ws, k) == IF k > Len(ws) THEN 0 ELSE k

RECURSIVE Scan(_, _)
\* lines 37-44: the position, in the reversed path ws, of the first model at
\* or after position k that has no positive coefficient; 0 when the loop
\* runs out
Scan(ws, k) ==
    IF k > Len(ws) THEN 0
    ELSE IF Pos(ws[k]) > 0 THEN Scan(ws, k + 1)
    ELSE k

\* lines 14-21: the grid of penalties
RegGrid ==
    /\ arg.fn = "refit_reg"
    /\ pc = "GRID"
    /\ LET g == AtMost(Grid(arg.l1_min_c, arg.l1_exp_step, arg.l1_base_step),
                       arg.max_penalty)
       IN  IF Len(g) = 0
           THEN \* cs[-1] of an empty array
                /\ Raise("IndexError")
                /\ cs' = g
           ELSE /\ cs' = AddFinal(g, arg.max_penalty)
                /\ pc' = "PATH"
                /\ UNCHANGED <<err, ret>>
    /\ UNCHANGED <<arg, weights, intercepts>>
    /\ UNCHANGED <<simpleVars, woeVars>>

\* lines 26-30: one iteration of the path loop: the fit at the next c
RegFitPath ==
    /\ arg.fn = "refit_reg"
    /\ pc = "PATH"
    /\ Len(weights) < Len(cs)
    /\ \E w \in [1..arg.ncols -> RegCoefVals], i \in RegInterceptVals :
          /\ weights' = Append(weights, w)
          /\ intercepts' = Append(intercepts, i)
    /\ pc' = IF Len(weights) + 1 = Len(cs) THEN "SELECT" ELSE "PATH"
    /\ UNCHANGED <<arg, err, ret, cs>>
    /\ UNCHANGED <<simpleVars, woeVars>>

\* lines 32-35: without the sign constraint the endpoint model is returned
RegEndpoint ==
    /\ arg.fn = "refit_reg"
    /\ pc = "SELECT"
    /\ ~arg.interp
    /\ LET w == weights[Len(weights)]
           i == intercepts[Len(intercepts)]
           neg == NonZero(w)
       IN  ret' = <<Take(w, neg), i, neg>>
    /\ pc' = "DONE"
    /\ UNCHANGED <<arg, err, cs, weights, intercepts>>
    /\ UNCHANGED <<simpleVars, woeVars>>

\* lines 37-47: with the sign constraint the reversed path is scanned
RegScan ==
    /\ arg.fn = "refit_reg"
    /\ pc = "SELECT"
    /\ arg.interp
    /\ LET k == Scan(Reverse(weights), 1)
       IN  IF k = 0
           THEN Raise("ValueError")
           ELSE LET w == Reverse(weights)[k]
                    i == Reverse(intercepts)[k]
                    neg == Neg(w)
                IN  /\ ret' = <<Take(w, neg), i, neg>>
                    /\ pc' = "DONE"
                    /\ err' = err
    /\ UNCHANGED <<arg, cs, weights, intercepts>>
    /\ UNCHANGED <<simpleVars, woeVars>>

\* the arguments refit_reg is called with, and what l1_min_c returns for
\* (X, y); l1_exp_step spans one or two decades per grid step
RegArgs ==
    {a \in [fn : {"refit_reg"}, ncols : 1..MaxRegCols, interp : BOOLEAN,
            l1_min_c : MinCVals, l1_base_step : 1..MaxGrid,
            l1_exp_step : 0..(2 * (MaxGrid - 1)),
            max_penalty : MaxPenaltyVals] :
        a.l1_exp_step \in {a.l1_base_step - 1, 2 * (a.l1_base_step - 1)}}

\* the state on entry to refit_reg
InitReg ==
    /\ arg \in RegArgs
    /\ pc = "GRID"
    /\ err = ""
    /\ ret = <<>>
    /\ sl_ok = <<>>
    /\ n = -1
    /\ ok_idx = <<>>
    /\ coef = <<>>
    /\ intercept = 0
    /\ p_vals = <<>>
    /\ b_var = <<>>
    /\ model_p_vals = <<>>
    /\ model_b_var = Unbound
    /\ x_val_cols = <<>>
    /\ fits = 0
    /\ H = "none"
    /\ cs = <<>>
    /\ weights = <<>>
    /\ intercepts = <<>>
    /\ NoFit

NextReg == RegGrid \/ RegFitPath \/ RegEndpoint \/ RegScan

SpecReg == InitReg /\ [][NextReg]_vars

---------------------------------------------------------------------------
(* Vocabulary of the properties.                                           *)

\* the call has ended
Terminated == pc \in {"DONE", "FAILED"}

\* the columns a mask keeps
Kept(mask) == {j \in 1..Len(mask) : mask[j]}

\* the step went back to the head of the loop
BackToFit == pc \in {"CHECK_SIGN", "CHECK_PVALUE", "CHECK_VALIDATION"} /\ pc' = "FIT"

\* the step cleared exactly the entry of column ok_idx[k] of the mask
Cleared(k) ==
    /\ k \in 1..Len(ok_idx)
    /\ ok_idx[k] \in Kept(sl_ok)
    /\ Kept(sl_ok') = Kept(sl_ok) \ {ok_idx[k]}
    /\ Len(sl_ok') = Len(sl_ok)

\* some kept coefficient of the current fit has the disallowed sign
SignViolation == arg.interp /\ \E k \in 1..Len(coef) : coef[k] >= 0

\* some non-intercept p-value of pv exceeds the threshold
AboveThreshold(pv) == \E k \in 1..(Len(pv) - 1) : pv[k] > arg.p_val

\* position k holds the largest non-intercept p-value of pv
LargestPVal(pv, k) ==
    /\ k \in 1..(Len(pv) - 1)
    /\ \A m \in 1..(Len(pv) - 1) : pv[m] <= pv[k]

---------------------------------------------------------------------------
(* C1.  refit_simple terminates: the keep-mask never gets an entry back,   *)
(* every iteration that goes round the loop again clears exactly one true  *)
(* entry, at most ncols model fits are made, and every run ends by         *)
(* returning or by failing.                                                *)
C1_Terminates ==
    /\ [](fits <= arg.ncols)
    /\ [][Kept(sl_ok') \subseteq Kept(sl_ok)]_vars
    /\ [][BackToFit => \E k \in 1..Len(ok_idx) : Cleared(k)]_vars
    /\ <>Terminated

\* every column was fitted on and dropped, one per iteration
C1_Witness ==
    /\ pc = "FAILED"
    /\ err = "AssertionError"
    /\ arg.ncols >= 2
    /\ fits = arg.ncols

(* C2.  Whenever refit_simple returns, every returned non-intercept        *)
(* p-value is at most p_val, and the returned p-values are those           *)
(* calc_p_val computed for the returned training fit on the final          *)
(* keep-mask, one per kept column and one for the intercept, also when a   *)
(* validation set was supplied.                                            *)
C2_ReturnedPValues ==
    (arg.fn = "refit_simple" /\ pc = "DONE") =>
        /\ Len(ret[4]) = Cardinality(Kept(ret[3])) + 1
        /\ Len(ret[1]) = Cardinality(Kept(ret[3]))
        /\ \A k \in 1..Len(ret[1]) : ret[4][k] <= arg.p_val
        /\ ok_idx = Arange(ret[3])
        /\ ret[4] = CalcPVal(ret[1], ret[2], ret[5].val)

\* a return after a validation check whose p-values differ from the
\* training ones
C2_Witness ==
    /\ pc = "DONE"
    /\ arg.fn = "refit_simple"
    /\ arg.X_val
    /\ Len(ret[1]) >= 2
    /\ p_vals # ret[4]

---------------------------------------------------------------------------
(* C6.  refit_simple never fits or returns on an empty keep-mask: an       *)
(* iteration that starts with no column left (the input had none, or the   *)
(* last one was just dropped) fails with an error, without a fit and       *)
(* without a result.                                                       *)
C6_NoEmptyModel ==
    /\ []((arg.fn = "refit_simple" /\ pc = "DONE")
            => (Kept(ret[3]) # {} /\ Len(ret[1]) > 0))
    /\ []((arg.fn = "refit_simple" /\ pc \in {"CHECK_SIGN", "CHECK_PVALUE",
                                              "CHECK_VALIDATION"})
            => (Kept(sl_ok) # {} /\ Len(coef) = Cardinality(Kept(sl_ok))))
    /\ [][(pc = "FIT" /\ Kept(sl_ok) = {})
            => (pc' = "FAILED" /\ err' = "AssertionError" /\ fits' = fits
                /\ ret' = <<>>)]_vars

\* the last remaining column was dropped and the call failed
C6_Witness ==
    /\ pc = "FAILED"
    /\ err = "AssertionError"
    /\ fits >= 1
    /\ Kept(sl_ok) = {}
    /\ ret = <<>>

---------------------------------------------------------------------------
(* C7.  The transitions of refit_simple.                                   *)

\* the step is one of the transitions the claim lists, each under its
\* condition
ListedTransition ==
    \/ /\ pc = "FIT"
       /\ pc' = "CHECK_SIGN"
    \/ /\ pc = "CHECK_SIGN"
       /\ IF SignViolation
          THEN pc' = "FIT" /\ \E k \in 1..Len(ok_idx) : Cleared(k)
          ELSE pc' = "CHECK_PVALUE" /\ sl_ok' = sl_ok
    \/ /\ pc = "CHECK_PVALUE"
       /\ IF AboveThreshold(p_vals')
          THEN pc' = "FIT" /\ \E k \in 1..Len(ok_idx) : Cleared(k)
          ELSE /\ pc' = IF arg.X_val THEN "CHECK_VALIDATION" ELSE "DONE"
               /\ sl_ok' = sl_ok
    \/ /\ pc = "CHECK_VALIDATION"
       /\ IF AboveThreshold(p_vals')
          THEN pc' = "FIT" /\ \E k \in 1..Len(ok_idx) : Cleared(k)
          ELSE pc' = "DONE" /\ sl_ok' = sl_ok

\* the step ends the call with an error: the assertion at the head of an
\* iteration that has no column left, or a singular Hessian in calc_p_val
FailureTransition ==
    /\ pc' = "FAILED"
    /\ sl_ok' = sl_ok
    /\ \/ pc = "FIT" /\ Kept(sl_ok) = {} /\ err' = "AssertionError"
       \/ pc \in {"CHECK_PVALUE", "CHECK_VALIDATION"} /\ err' = "LinAlgError"

\* CHECK_VALIDATION is entered only with validation data and only in an
\* iteration whose sign check and training p-value check found nothing
ValidationAfterTraining ==
    pc = "CHECK_VALIDATION" =>
        /\ arg.X_val
        /\ ~SignViolation
        /\ ~AboveThreshold(model_p_vals)
        /\ p_vals = model_p_vals
        /\ ok_idx = Arange(sl_ok)

(* C7 as stated: every step of refit_simple is one of the listed           *)
(* transitions (FIT to CHECK_SIGN always, ...), and CHECK_VALIDATION is    *)
(* never entered after a violation in the same iteration.                  *)
C7_OnlyListedTransitions ==
    /\ [][ListedTransition]_vars
    /\ []ValidationAfterTraining

(* C7 as amended: every step is one of the listed transitions or a         *)
(* failure: FIT to FAILED when the iteration starts with an empty          *)
(* keep-mask, CHECK_PVALUE or CHECK_VALIDATION to FAILED when the Hessian  *)
(* is singular; FIT goes to CHECK_SIGN whenever a column is left; and      *)
(* CHECK_VALIDATION is never entered after a violation in the same         *)
(* iteration.                                                              *)
C7_Transitions ==
    /\ [][ListedTransition \/ FailureTransition]_vars
    /\ [][(pc = "FIT" /\ Kept(sl_ok) # {}) => pc' = "CHECK_SIGN"]_vars
    /\ []ValidationAfterTraining

\* the validation check is entered in a second iteration, after a drop
C7_Witness ==
    /\ pc = "CHECK_VALIDATION"
    /\ fits >= 2

---------------------------------------------------------------------------
(* C8.  With the sign constraint, a fit with a coefficient of the          *)
(* disallowed sign (>= 0) drops exactly one column, one whose coefficient  *)
(* is the largest, and goes back to fit; a returned model then has only    *)
(* negative coefficients.  Without the sign constraint the sign check      *)
(* never drops a column.                                                   *)
C8_SignDrop ==
    /\ [][pc = "CHECK_SIGN" =>
            IF SignViolation
            THEN /\ pc' = "FIT"
                 /\ \E k \in 1..Len(coef) :
                       /\ \A m \in 1..Len(coef) : coef[m] <= coef[k]
                       /\ Cleared(k)
            ELSE /\ pc' = "CHECK_PVALUE"
                 /\ sl_ok' = sl_ok]_vars
    /\ []((arg.fn = "refit_simple" /\ pc = "DONE" /\ arg.interp)
            => \A k \in 1..Len(ret[1]) : ret[1][k] < 0)

\* a sign drop just happened: of the coefficients 0 and 1 the second
\* column, which has the larger one, was dropped
C8_Witness ==
    /\ pc = "FIT"
    /\ arg.interp
    /\ coef = <<0, 1>>
    /\ sl_ok = <<TRUE, FALSE>>

---------------------------------------------------------------------------
(* C9.  With a validation set, refit_simple returns only from the          *)
(* validation check, in an iteration where the sign check, the training    *)
(* p-values and the validation p-values all pass on one and the same       *)
(* keep-mask; a validation drop comes after the training checks passed on  *)
(* that mask, removes a kept column with the largest validation p-value,   *)
(* and leads back to a new fit.                                            *)
C9_ValidationFilter ==
    /\ []((arg.fn = "refit_simple" /\ pc = "DONE" /\ arg.X_val) =>
            /\ ~SignViolation
            /\ ~AboveThreshold(ret[4])
            /\ ~AboveThreshold(p_vals)
            /\ ok_idx = Arange(ret[3])
            /\ x_val_cols = Arange(ret[3])
            /\ Len(p_vals) = Len(ret[4]))
    /\ [][(arg.X_val /\ pc # "DONE" /\ pc' = "DONE")
            => (pc = "CHECK_VALIDATION" /\ sl_ok' = sl_ok)]_vars
    /\ [][(pc = "CHECK_VALIDATION" /\ pc' = "FIT") =>
            /\ ~SignViolation
            /\ ~AboveThreshold(model_p_vals)
            /\ ok_idx = Arange(sl_ok)
            /\ x_val_cols' = Arange(sl_ok)
            /\ AboveThreshold(p_vals')
            /\ \E k \in 1..Len(ok_idx) : LargestPVal(p_vals', k) /\ Cleared(k)]_vars

\* a validation drop just happened: the validation p-values, taken on the
\* columns of this iteration, differ from the training ones, which passed
C9_Witness ==
    /\ pc = "FIT"
    /\ arg.fn = "refit_simple"
    /\ arg.X_val
    /\ Len(ok_idx) = 2
    /\ x_val_cols = ok_idx
    /\ Cardinality(Kept(sl_ok)) = 1
    /\ AboveThreshold(p_vals)
    /\ ~AboveThreshold(model_p_vals)

---------------------------------------------------------------------------
(* C10.  On termination refit_simple returns, as its last result, the      *)
(* coefficient variances of the final training fit: an array with one      *)
(* entry per kept coefficient and one for the intercept, as long as the    *)
(* returned p-values.                                                      *)
C10_ReturnsVariances ==
    (arg.fn = "refit_simple" /\ pc = "DONE") =>
        /\ ret[5] = NdArray(ret[5].val)
        /\ Len(ret[5].val) = Len(ret[4])

---------------------------------------------------------------------------
(* Properties of refit_reg.                                                *)

\* a model of the path without a coefficient of the disallowed sign
SignPure(w) == \A k \in 1..Len(w) : w[k] <= 0

\* the number of features a model of the path uses
Support(w) == Cardinality({k \in 1..Len(w) : w[k] # 0})

\* ret is what line 44 returns for model r of the path
ReturnedFrom(r) ==
    /\ ret[3] = [k \in 1..Len(weights[r]) |-> weights[r][k] < 0]
    /\ ret[1] = Take(weights[r], ret[3])
    /\ ret[2] = intercepts[r]

(* C3.  With the sign constraint, refit_reg either returns a model of the  *)
(* path that has no positive coefficient (its negative coefficients, all   *)
(* of its non-zero ones), or raises ValueError because every model of the  *)
(* path has a positive coefficient; no returned coefficient is positive    *)
(* and no positive coefficient of the chosen model is left out silently.   *)
C3_SignPureOrError ==
    /\ []((arg.fn = "refit_reg" /\ arg.interp /\ pc = "DONE") =>
            /\ \A k \in 1..Len(ret[1]) : ret[1][k] < 0
            /\ \E r \in 1..Len(weights) :
                  /\ SignPure(weights[r])
                  /\ ReturnedFrom(r)
                  /\ Len(ret[1]) = Support(weights[r]))
    /\ [][(arg.interp /\ pc = "SELECT") =>
            \/ pc' = "DONE"
            \/ /\ pc' = "FAILED"
               /\ err' = "ValueError"
               /\ ret' = <<>>
               /\ \A r \in 1..Len(weights) : ~SignPure(weights[r])]_vars

\* a mixed-sign endpoint model was passed over and a sign-pure one returned
C3_Witness ==
    /\ arg.fn = "refit_reg"
    /\ arg.interp
    /\ pc = "DONE"
    /\ Len(weights) >= 2
    /\ weights[Len(weights)] = <<1, -1>>
    /\ Len(ret[1]) >= 1

(* C4.  refit_reg called with a max_penalty strictly below the first grid  *)
(* value (l1_min_c, the penalty that zeroes all coefficients) returns the  *)
(* intercept-only model: an empty coefficient vector and an all-false      *)
(* mask, instead of failing.                                               *)
C4_BelowGridReturnsEmpty ==
    (arg.fn = "refit_reg" /\ arg.max_penalty < arg.l1_min_c /\ pc # "GRID") =>
        /\ pc # "FAILED"
        /\ pc = "DONE" => (ret[1] = <<>> /\ Kept(ret[3]) = {})

(* C5 as stated.  With the sign constraint refit_reg returns the sparsest  *)
(* sign-pure model of the path: no model of the path without a positive    *)
(* coefficient uses fewer features than the returned one.                  *)
C5_ReturnsSparsest ==
    (arg.fn = "refit_reg" /\ arg.interp /\ pc = "DONE") =>
        \A j \in 1..Len(weights) :
            SignPure(weights[j]) => Len(ret[1]) <= Support(weights[j])

(* C5 as amended.  With the sign constraint refit_reg scans the path from  *)
(* the target penalty (the last fit) back toward the strongest penalty     *)
(* and returns the first sign-pure model it meets: the one fitted nearest  *)
(* the target penalty, every model fitted after it having a positive       *)
(* coefficient.                                                            *)
C5_ReturnsNearestTarget ==
    (arg.fn = "refit_reg" /\ arg.interp /\ pc = "DONE") =>
        \E r \in 1..Len(weights) :
            /\ SignPure(weights[r])
            /\ ReturnedFrom(r)
            /\ \A j \in (r + 1)..Len(weights) : ~SignPure(weights[j])

\* the path holds the empty model, a sign-pure model with two features
\* and, fitted last, a mixed one; the two-feature model is returned
C5_Witness ==
    /\ arg.fn = "refit_reg"
    /\ arg.interp
    /\ pc = "DONE"
    /\ weights = << <<0, 0>>, <<-1, -1>>, <<1, -1>> >>
    /\ ret[1] = <<-1, -1>>


---------------------------------------------------------------------------
(* AutoWoE.fit and the methods it calls (autowoe/lib/autowoe.py).          *)
(*                                                                         *)
(* A feature is a number; the keys of a dict are kept as a sequence, in    *)
(* the dict's order.  All features are real-valued: a categorical feature  *)
(* differs by CatEncoding (another file) before and after the bin search.  *)
(* What the steps of other files return (nan_constant_selector,            *)
(* feature_imp_selector, TreeParamOptimizer and HTransform, WoE, Selector) *)
(* is a choice: the facts of the bin search are drawn with the call, the   *)
(* rest when the step runs.  Sizes are row counts; the min_bin_mults are   *)
(* in halves (4 is 2.0) and the min_gains_to_split in halves (1 is 0.5).   *)
(***************************************************************************)

\* largest number of features of the training frame
MaxFeatures == 2

\* int(1e8)
BinConstructSampleCnt == 100000000

\* range(a, b)
Range(a, b) == [i \in 1..(IF b > a THEN b - a ELSE 0) |-> a + i - 1]

\* the elements of a sequence
Elems(q) == {q[i] : i \in 1..Len(q)}

\* [x for x in q if x not in dropped]
Without(q, dropped) == SelectSeq(q, LAMBDA x : x \notin dropped)

\* int(m * s) for a multiplier in halves
IntMul(m2, s) == (m2 * s) \div 2

\* lines 320-326: self._tree_dict_opt
InferTreeDictOpt(p) ==
    [min_data_in_leaf |-> <<p.min_bin_size>>,
     min_data_in_bin |-> <<p.min_bin_size>> \o
         [i \in 1..Len(p.min_bin_mults) |->
             IntMul(p.min_bin_mults[i], p.min_bin_size)],
     min_gain_to_split |-> p.min_gains_to_split]

\* lines 567-571: the dict with the leaf counts added
WithLeaves(td, max_bin_count) ==
    [num_leaves |-> Range(2, max_bin_count + 1),
     bin_construct_sample_cnt |-> <<BinConstructSampleCnt>>] @@ td

\* lines 574-576: the single split is forced
ForceSingle(p, min_size) ==
    /\ p.force_single_split
    /\ p.th_const < min_size
    /\ min_size < p.min_bin_size

\* only the leaf counts are restricted
SingleSplitLeavesOnly(td, min_size) == [td EXCEPT !.num_leaves = <<2>>]

\* lines 577-579
SingleSplit(td, min_size) ==
    [td EXCEPT !.min_data_in_leaf = <<min_size>>,
               !.min_data_in_bin = <<3>>,
               !.num_leaves = <<2>>]

\* lines 564-579: tree_dict_opt of one call
LocalTreeDictOpt(td, p, max_bin_count, min_size) ==
    IF max_bin_count # 0
    THEN IF ForceSingle(p, min_size)
         THEN SingleSplit(WithLeaves(td, max_bin_count), min_size)
         ELSE WithLeaves(td, max_bin_count)
    ELSE td

\* lines 583-585: params_range
ParamsRange(td, constr) == [monotone_constraints |-> <<constr>>] @@ td

\* lines 577-579 written through to self._tree_dict_opt
TreeDictOptShared(td, local) == local

\* lines 564, 568: the call works on a dict of its own
TreeDictOptKept(td, local) == td

\* line 555: split = [-np.inf]
TrivialSplit(name) == [kind |-> "split", of |-> name, trivial |-> TRUE, grid |-> None]

\* lines 581-591: what the search on the column of `name` returns
HTransform(name, facts, grid) ==
    IF facts.htransform = "None"
    THEN None
    ELSE [kind |-> "split", of |-> name, trivial |-> FALSE, grid |-> grid]

\* lines 550-597: the value feature_woe_transform returns
FeatureWoeTransform(name, facts, constr, max_bin_count, td, p) ==
    IF facts.empty
    THEN TrivialSplit(name)
    ELSE HTransform(name, facts,
             ParamsRange(LocalTreeDictOpt(td, p, max_bin_count, facts.min_size),
                         constr))

\* lines 564-579: self._tree_dict_opt after the call
TreeDictOptAfter(facts, max_bin_count, td, p) ==
    IF facts.empty
    THEN td
    ELSE TreeDictOptKept(td, LocalTreeDictOpt(td, p, max_bin_count, facts.min_size))


\* a Python str
Str(s) == [kind |-> "str", val |-> s]

\* a task of the pool that has not returned
Pending == [kind |-> "pending"]

\* a Python int
PyInt(i) == [kind |-> "int", val |-> i]

\* a key the caller's dict does not have
Absent == [kind |-> "absent"]

\* d.get(key)
Get(d, key) == IF d[key] = Absent THEN None ELSE d[key]

\* roc_auc_score of a feature against the target: an AUC in per-mille, or
\* the exception it raises
Auc(a) == [kind |-> "auc", val |-> a]

Raises(e) == [kind |-> "raise", val |-> e]

\* np.sign(x)
Sign(x) == IF x > 0 THEN 1 ELSE IF x < 0 THEN 0 - 1 ELSE 0

\* str(i) of an int i in -1..1
StrInt(i) == Str(CASE i = 1 -> "1" [] i = 0 -> "0" [] OTHER -> "-1")

\* every value but 'auto' is checked against ['0', 0, None] only
ChecklistAutoOnly(monotonic) == {Str("auto")}

\* lines 349-351: checklist
Checklist(monotonic) ==
    {Str("auto")} \cup (IF monotonic THEN {Str("0"), PyInt(0), None} ELSE {})

\* lines 29-36: get_monotonic_constr, for what roc_auc_score gives
GetMonotonicConstr(auc) ==
    IF auc.kind = "raise" /\ auc.val \in {"ValueError", "TypeError"}
    THEN Str("0")
    ELSE StrInt(Sign(auc.val - 500))

\* lines 354-361: new_val for the value val = constraints.get(col)
NewVal(val, monotonic, auc) ==
    IF val \in Checklist(monotonic)
    THEN GetMonotonicConstr(auc)
    ELSE IF val \in {Str("0"), PyInt(0), None}
         THEN Str("0")
         ELSE val

\* largest n_jobs
MaxJobs == 2

\* rows outside the most frequent value of a column (line 575)
MinSizes == {7, 20}

\* what the data say about one feature: no row left at line 554, the rows
\* outside its most frequent value, and what the bin search returns
FeatureFacts ==
    {[empty |-> TRUE, min_size |-> 0, htransform |-> "None"]} \cup
    [empty : {FALSE}, min_size : MinSizes, htransform : {"None", "split"}]

\* self.params after lines 314-318, on a frame of 1000 rows
FitParams(force_single_split) ==
    [min_bin_size |-> 10, th_const |-> 5, min_bin_mults |-> <<4, 8>>,
     min_gains_to_split |-> <<0, 1, 2>>, max_bin_count |-> 5,
     force_single_split |-> force_single_split]

\* the fit calls of the model
FitCalls ==
    UNION {[k : {kk}, n_jobs : 1..MaxJobs, oof_woe : BOOLEAN,
            regularized_refit : BOOLEAN, validation : BOOLEAN,
            force_single_split : BOOLEAN,
            data : [1..kk -> FeatureFacts]] : kk \in 1..MaxFeatures}

\* no refit function has been entered
RefitIdle ==
    /\ arg = None
    /\ pc = "IDLE"
    /\ err = ""
    /\ ret = <<>>
    /\ sl_ok = <<>>
    /\ n = -1
    /\ ok_idx = <<>>
    /\ coef = <<>>
    /\ intercept = 0
    /\ p_vals = <<>>
    /\ b_var = <<>>
    /\ model_p_vals = <<>>
    /\ model_b_var = Unbound
    /\ x_val_cols = <<>>
    /\ fits = 0
    /\ H = "none"
    /\ cs = <<>>
    /\ weights = <<>>
    /\ intercepts = <<>>

refitVars == <<arg, pc, err, ret, simpleVars, regVars>>

\* a constructed object on which fit is called
InitFit ==
    /\ RefitIdle
    /\ Constructed
    /\ call \in FitCalls
    /\ fit_pc = "START"
    /\ fit_err = ""
    /\ tree_dict_opt = None
    /\ features_monotone_constraints = None
    /\ enc = None
    /\ result = <<>>
    /\ pool = None
    /\ best_features = <<>>
    /\ valid_enc = None
    /\ refit_call = None

\* an empty pandas Series
EmptySeries == [kind |-> "Series", index |-> <<>>, values |-> <<>>]

\* the exception is caught and an empty model stored
FitSwallow(e) ==
    /\ fit_pc' = "FITTED"
    /\ fit_err' = ""
    /\ features_fit' = EmptySeries
    /\ _weights' = NdArray(<<>>)
    /\ _intercept' = NdArray(<<0>>)
    /\ UNCHANGED _p_vals

\* an exception leaves fit: no handler in fit or in the methods it calls
FitRaise(e) ==
    /\ fit_pc' = "RAISED"
    /\ fit_err' = e
    /\ UNCHANGED <<features_fit, _weights, _intercept, _p_vals>>

\* lines 430-432, 441-443, 473-475, 671-674: the tag of the features that
\* were in `before` and are not in `after`
Tagged(history, before, after, tag) ==
    [f \in DOMAIN history |->
        IF f \in before \ after THEN Str(tag) ELSE history[f]]

\* lines 410-424
FitInfer ==
    /\ fit_pc = "START"
    /\ tree_dict_opt' = InferTreeDictOpt(FitParams(call.force_single_split))
    /\ features_monotone_constraints' =
          [col \in 1..call.k |-> NewVal(Get([c \in 1..call.k |-> Absent], col),
                                        FALSE, Raises("ValueError"))]
    /\ private_features_type' = Range(1, call.k + 1)
    /\ feature_history' = [f \in 1..call.k |-> None]
    /\ fit_pc' = "NAN_SELECT"
    /\ UNCHANGED <<call, fit_err, features_fit, _weights, _intercept, _p_vals,
                   split_dict, woe_dict, enc, result, pool, best_features,
                   valid_enc, refit_call>>
    /\ UNCHANGED refitVars

\* lines 426-432
NanConstantSelector ==
    /\ fit_pc = "NAN_SELECT"
    /\ \E dropped \in SUBSET Elems(private_features_type) :
          /\ private_features_type' = Without(private_features_type, dropped)
          /\ feature_history' =
                Tagged(feature_history, Elems(private_features_type),
                       Elems(private_features_type'), "NaN values")
    /\ fit_pc' = "IMP_SELECT"
    /\ UNCHANGED <<call, fit_err, features_fit, _weights, _intercept, _p_vals,
                   tree_dict_opt, split_dict, woe_dict, enc, result, pool,
                   best_features, valid_enc, refit_call>>
    /\ UNCHANGED <<refitVars, features_monotone_constraints>>

\* lines 434-443
FeatureImpSelector ==
    /\ fit_pc = "IMP_SELECT"
    /\ \E dropped \in SUBSET Elems(private_features_type) :
          /\ private_features_type' = Without(private_features_type, dropped)
          /\ feature_history' =
                Tagged(feature_history, Elems(private_features_type),
                       Elems(private_features_type'), "Low importance")
    /\ fit_pc' = "BINNING"
    /\ UNCHANGED <<call, fit_err, features_fit, _weights, _intercept, _p_vals,
                   tree_dict_opt, split_dict, woe_dict, enc, result, pool,
                   best_features, valid_enc, refit_call>>
    /\ UNCHANGED <<refitVars, features_monotone_constraints>>


\* the arguments of feature_woe_transform for one key (lines 453-456)
TransformOf(name, td) ==
    FeatureWoeTransform(name, call.data[name],
                        features_monotone_constraints[name],
                        FitParams(call.force_single_split).max_bin_count,
                        td, FitParams(call.force_single_split))

\* the results in the order the tasks returned
UnorderedResult(pl) == [i \in 1..Len(pl.finished) |-> pl.done[pl.finished[i]]]

\* Pool.starmap: the results in the order of the tasks
StarmapResult(pl) == pl.done

\* lines 458-460: starmap hands the tasks to a pool of n_jobs processes
PoolStarmap ==
    /\ fit_pc = "BINNING"
    /\ call.n_jobs > 1
    /\ pool' = [tasks |-> private_features_type,
                next |-> 1,
                running |-> [w \in 1..call.n_jobs |-> 0],
                done |-> [i \in 1..Len(private_features_type) |-> Pending],
                finished |-> <<>>]
    /\ fit_pc' = "POOL"
    /\ UNCHANGED <<call, fit_err, features_fit, _weights, _intercept, _p_vals,
                   feature_history, private_features_type, tree_dict_opt,
                   split_dict, woe_dict, enc, result, best_features, valid_enc,
                   refit_call>>
    /\ UNCHANGED <<refitVars, features_monotone_constraints>>

\* an idle process of the pool takes the next task
WorkerTake ==
    /\ fit_pc = "POOL"
    /\ pool.next <= Len(pool.tasks)
    /\ \E w \in DOMAIN pool.running :
          /\ pool.running[w] = 0
          /\ pool' = [pool EXCEPT !.running[w] = pool.next,
                                  !.next = pool.next + 1]
    /\ UNCHANGED <<call, fit_pc, fit_err, features_fit, _weights, _intercept,
                   _p_vals, feature_history, private_features_type,
                   tree_dict_opt, split_dict, woe_dict, enc, result,
                   best_features, valid_enc, refit_call>>
    /\ UNCHANGED <<refitVars, features_monotone_constraints>>

\* a process of the pool returns from feature_woe_transform: it ran on its
\* own copy of self, and its result is kept at the position of its task
WorkerFinish ==
    /\ fit_pc = "POOL"
    /\ \E w \in DOMAIN pool.running :
          /\ pool.running[w] # 0
          /\ pool' = [pool EXCEPT
                !.done[pool.running[w]] =
                    TransformOf(pool.tasks[pool.running[w]], tree_dict_opt),
                !.finished = Append(pool.finished, pool.running[w]),
                !.running[w] = 0]
    /\ UNCHANGED <<call, fit_pc, fit_err, features_fit, _weights, _intercept,
                   _p_vals, feature_history, private_features_type,
                   tree_dict_opt, split_dict, woe_dict, enc, result,
                   best_features, valid_enc, refit_call>>
    /\ UNCHANGED <<refitVars, features_monotone_constraints>>

\* line 460: starmap returns once every task has returned
StarmapReturn ==
    /\ fit_pc = "POOL"
    /\ \A i \in DOMAIN pool.done : pool.done[i] # Pending
    /\ result' = StarmapResult(pool)
    /\ fit_pc' = "JOIN"
    /\ UNCHANGED <<call, fit_err, features_fit, _weights, _intercept, _p_vals,
                   feature_history, private_features_type, tree_dict_opt,
                   split_dict, woe_dict, enc, pool, best_features, valid_enc,
                   refit_call>>
    /\ UNCHANGED <<refitVars, features_monotone_constraints>>

\* lines 461-464: one iteration of the loop, or its end
SequentialTransform ==
    /\ fit_pc = "BINNING"
    /\ call.n_jobs <= 1
    /\ IF Len(result) < Len(private_features_type)
       THEN LET name == private_features_type[Len(result) + 1] IN
            /\ result' = Append(result, TransformOf(name, tree_dict_opt))
            /\ tree_dict_opt' =
                  TreeDictOptAfter(call.data[name],
                      FitParams(call.force_single_split).max_bin_count,
                      tree_dict_opt, FitParams(call.force_single_split))
            /\ UNCHANGED fit_pc
       ELSE /\ fit_pc' = "JOIN"
            /\ UNCHANGED <<result, tree_dict_opt>>
    /\ UNCHANGED <<call, fit_err, features_fit, _weights, _intercept, _p_vals,
                   feature_history, private_features_type, split_dict,
                   woe_dict, enc, pool, best_features, valid_enc, refit_call>>
    /\ UNCHANGED <<refitVars, features_monotone_constraints>>

\* dict(zip(keys, values))
DictZip(keys, values) ==
    [f \in {keys[i] : i \in 1..Len(keys)} |->
        values[CHOOSE i \in 1..Len(keys) : keys[i] = f]]

\* the features whose result is a split with a bin boundary in the data
NotNoneNorTrivial(d) ==
    {f \in DOMAIN d : IF d[f] = None THEN FALSE ELSE ~d[f].trivial}

\* line 467: the features whose result is not None
NotNone(d) == {f \in DOMAIN d : d[f] # None}

\* lines 466-479
JoinSplits ==
    /\ fit_pc = "JOIN"
    /\ LET d == DictZip(private_features_type, result)
           kept == NotNone(d) IN
       /\ split_dict' = [f \in kept |-> d[f]]
       /\ private_features_type' =
             SelectSeq(private_features_type, LAMBDA f : f \in kept)
       /\ feature_history' =
             Tagged(feature_history, Elems(private_features_type), kept,
                    "Unable to WOE transform")
    /\ fit_pc' = "ENCODE"
    /\ enc' = [woe_dict |-> <<>>, woe_list |-> <<>>, woe |-> None,
               df_cod |-> None]
    /\ UNCHANGED <<call, fit_err, features_fit, _weights, _intercept, _p_vals,
                   tree_dict_opt, woe_dict, result, pool, best_features,
                   valid_enc, refit_call>>
    /\ UNCHANGED <<refitVars, features_monotone_constraints>>


\* line 617: WoE(f_type, split, woe_diff_th), not fitted yet
WoeNew(feature, split) ==
    [kind |-> "WoE", feature |-> feature, split |-> split, table |-> "unfit"]

\* a column of WoE codes, with the kind of table that encoded it
Column(feature, table) ==
    [kind |-> "column", feature |-> feature, table |-> table]

\* the encoder is left as fit_transform_cv left it
WoeKeep(woe) == woe

\* woe.fit(train[feature], self.target): the table of the full sample
WoeFit(woe) == [woe EXCEPT !.table = "full"]

\* woe.transform(column): codes from the table the object holds
WoeTransform(woe) == Column(woe.feature, woe.table)

\* line 622: after fit_transform_cv the encoder is fitted on the full sample
FitAfterCv(woe) == WoeFit(woe)

\* d[key] = value
DictSet(d, key, value) == (key :> value) @@ d

\* lines 616-621, 624-626: the encoder of the next feature is made and the
\* training column encoded; without folds the iteration ends here
EncodeFeature ==
    /\ fit_pc = "ENCODE"
    /\ enc.woe = None
    /\ Len(enc.woe_list) < Len(private_features_type)
    /\ LET feature == private_features_type[Len(enc.woe_list) + 1]
           woe == WoeNew(feature, split_dict[feature]) IN
       IF call.oof_woe
       THEN \E left \in {"unfit", "folds"} :
               enc' = [enc EXCEPT !.woe = [woe EXCEPT !.table = left],
                                  !.df_cod = Column(feature, "folds")]
       ELSE enc' = [enc EXCEPT
                       !.woe_dict = DictSet(@, feature, WoeFit(woe)),
                       !.woe_list = Append(@, WoeTransform(WoeFit(woe)))]
    /\ UNCHANGED <<call, fit_pc, fit_err, features_fit, _weights, _intercept,
                   _p_vals, feature_history, private_features_type,
                   tree_dict_opt, split_dict, woe_dict, result, pool,
                   best_features, valid_enc, refit_call>>
    /\ UNCHANGED <<refitVars, features_monotone_constraints>>

\* lines 622, 625-626: with folds, the encoder is fitted again and kept
RefitEncoder ==
    /\ fit_pc = "ENCODE"
    /\ enc.woe # None
    /\ enc' = [enc EXCEPT
                  !.woe_dict = DictSet(@, enc.woe.feature, FitAfterCv(enc.woe)),
                  !.woe_list = Append(@, enc.df_cod),
                  !.woe = None,
                  !.df_cod = None]
    /\ UNCHANGED <<call, fit_pc, fit_err, features_fit, _weights, _intercept,
                   _p_vals, feature_history, private_features_type,
                   tree_dict_opt, split_dict, woe_dict, result, pool,
                   best_features, valid_enc, refit_call>>
    /\ UNCHANGED <<refitVars, features_monotone_constraints>>

\* lines 627-630: self.woe_dict is set; pd.concat of no column raises
TrainEncodingReturn ==
    /\ fit_pc = "ENCODE"
    /\ enc.woe = None
    /\ Len(enc.woe_list) = Len(private_features_type)
    /\ woe_dict' = enc.woe_dict
    /\ IF Len(enc.woe_list) = 0
       THEN FitRaise("ValueError")
       ELSE /\ fit_pc' = "SELECT"
            /\ UNCHANGED <<fit_err, features_fit, _weights, _intercept, _p_vals>>
    /\ UNCHANGED <<call, feature_history, private_features_type, tree_dict_opt,
                   split_dict, enc, result, pool, best_features, valid_enc,
                   refit_call>>
    /\ UNCHANGED <<refitVars, features_monotone_constraints>>

\* lines 483-497: the Selector keeps some of the features, in their order,
\* and writes its own tag for those it drops
Select ==
    /\ fit_pc = "SELECT"
    /\ \E kept \in SUBSET Elems(private_features_type) :
          /\ best_features' =
                SelectSeq(private_features_type, LAMBDA f : f \in kept)
          /\ feature_history' =
                Tagged(feature_history, Elems(private_features_type), kept,
                       "Selector")
    /\ fit_pc' = "VALIDATION"
    /\ UNCHANGED <<call, fit_err, features_fit, _weights, _intercept, _p_vals,
                   private_features_type, tree_dict_opt, split_dict, woe_dict,
                   enc, result, pool, valid_enc, refit_call>>
    /\ UNCHANGED <<refitVars, features_monotone_constraints>>

\* lines 717-727: test_encoding(test, feats)
TestEncoding(feats) ==
    [kind |-> "frame",
     columns |-> [i \in 1..Len(feats) |-> WoeTransform(woe_dict[feats[i]])]]

\* lines 500-503
MakeValidation ==
    /\ fit_pc = "VALIDATION"
    /\ valid_enc' = IF call.validation /\ ~call.regularized_refit
                    THEN TestEncoding(best_features)
                    ELSE None
    /\ fit_pc' = "REFIT"
    /\ UNCHANGED <<call, fit_err, features_fit, _weights, _intercept, _p_vals,
                   feature_history, private_features_type, tree_dict_opt,
                   split_dict, woe_dict, enc, result, pool, best_features,
                   refit_call>>
    /\ UNCHANGED <<refitVars, features_monotone_constraints>>


\* refit.py line 10: the parameters of refit_reg, and those with a default
RefitRegParams == <<"X", "y", "l1_base_step", "l1_exp_step", "max_penalty", "interp">>

RefitRegDefaults == {"interp"}

\* refit.py lines 51-52: the parameters of refit_simple, all but X and y
\* with a default
RefitSimpleParams == <<"X", "y", "interp", "p_val", "X_val", "y_val">>

RefitSimpleDefaults == {"interp", "p_val", "X_val", "y_val"}

\* lines 651-655: the keywords of the call of refit_reg (x_train, y_train
\* are positional)
RefitRegKeywords == {"l1_grid_size", "l1_exp_scale", "max_penalty", "interp"}

\* lines 660-661: the keywords of the call of refit_simple
RefitSimpleKeywords == {"interp", "p_val", "x_val", "y_val"}

\* Python binds a call: every keyword names a parameter that no positional
\* argument has filled, and every parameter without a default is given
Binds(params, defaults, npos, keywords) ==
    /\ npos <= Len(params)
    /\ keywords \subseteq {params[i] : i \in (npos + 1)..Len(params)}
    /\ \A i \in (npos + 1)..Len(params) : params[i] \in keywords \cup defaults

\* what a refit that was entered gives back: an exception, or the mask neg
\* of the columns it kept
RefitOutcomes(fn, k) ==
    [err : IF fn = "refit_reg" THEN {"ValueError", "IndexError"}
                               ELSE {"AssertionError", "LinAlgError"},
     neg : {<<>>}]
    \cup [err : {""}, neg : [1..k -> BOOLEAN]]

\* the features the refit kept are tagged instead of those it removed
RefitHistoryKept(history, features, neg) ==
    Tagged(history, Elems(features), Elems(features) \ Elems(Take(features, neg)),
           "Pruned during regression refit")

\* lines 665-674: the history after a refit that returned the mask neg
RefitHistory(history, features, neg) ==
    Tagged(history, Elems(features), Elems(Take(features, neg)),
           "Pruned during regression refit")

\* lines 665-682 and 507-513: the model of a refit that returned the mask
\* neg is labelled with the names of the kept features and stored
StoreModel(neg) ==
    LET feats == Take(best_features, neg) IN
    /\ feature_history' = RefitHistory(feature_history, best_features, neg)
    /\ features_fit' = [kind |-> "Series", index |-> feats,
                        values |-> [i \in 1..Len(feats) |-> -1]]
    /\ _weights' = NdArray([i \in 1..Len(feats) |-> -1])
    /\ _intercept' = NdArray(<<0>>)
    /\ _p_vals' = IF call.regularized_refit
                  THEN _p_vals
                  ELSE [kind |-> "Series",
                        index |-> Append(feats, "Intercept_"),
                        values |-> [i \in 1..(Len(feats) + 1) |-> 0]]
    /\ fit_pc' = "FITTED"
    /\ fit_err' = fit_err

\* lines 505-517 with _clf_fit (lines 645-682): the refit is called; what it
\* returns is labelled and stored
ClfFit ==
    /\ fit_pc = "REFIT"
    /\ LET fn == IF call.regularized_refit THEN "refit_reg" ELSE "refit_simple"
           bound == IF call.regularized_refit
                    THEN Binds(RefitRegParams, RefitRegDefaults, 2, RefitRegKeywords)
                    ELSE Binds(RefitSimpleParams, RefitSimpleDefaults, 2,
                               RefitSimpleKeywords)
           x_val == IF call.regularized_refit THEN None ELSE valid_enc IN
       IF ~bound
       THEN /\ refit_call' = [fn |-> fn, x_val |-> x_val, entered |-> FALSE,
                              err |-> "TypeError"]
            /\ FitRaise("TypeError")
            /\ UNCHANGED feature_history
       ELSE \E out \in RefitOutcomes(fn, Len(best_features)) :
               /\ refit_call' = [fn |-> fn, x_val |-> x_val, entered |-> TRUE,
                                 err |-> out.err]
               /\ IF out.err # ""
                  THEN /\ FitRaise(out.err)
                       /\ UNCHANGED feature_history
                  ELSE StoreModel(out.neg)
    /\ UNCHANGED <<call, private_features_type, tree_dict_opt, split_dict,
                   woe_dict, enc, result, pool, best_features, valid_enc>>
    /\ UNCHANGED <<refitVars, features_monotone_constraints>>

NextFit ==
    \/ FitInfer
    \/ NanConstantSelector
    \/ FeatureImpSelector
    \/ PoolStarmap
    \/ WorkerTake
    \/ WorkerFinish
    \/ StarmapReturn
    \/ SequentialTransform
    \/ JoinSplits
    \/ EncodeFeature
    \/ RefitEncoder
    \/ TrainEncodingReturn
    \/ Select
    \/ MakeValidation
    \/ ClfFit

SpecFit == InitFit /\ [][NextFit]_vars


---------------------------------------------------------------------------
(* Claims about AutoWoE.fit.                                               *)

\* the attributes that hold the fitted model are unset
NoModel ==
    /\ features_fit = None
    /\ _weights = None
    /\ _intercept = None
    /\ _p_vals = None

\* the refit step of this fit call ended in an exception
RefitFailed == refit_call # None /\ refit_call.err # ""

\* C11: when the refit called by _clf_fit ends in an exception, fit ends in
\* that same exception, and features_fit, _weights, _intercept and _p_vals
\* are the None they were before the call; they are None in every state in
\* which fit has not returned.
C11_RefitFailurePropagates ==
    /\ (RefitFailed =>
           /\ fit_pc = "RAISED"
           /\ fit_err = refit_call.err
           /\ NoModel)
    /\ (fit_pc # "FITTED" => NoModel)

\* the refit call of a fit that had binned, encoded and selected a feature
\* has failed, and fit has ended in its exception with no model stored
C11_Witness ==
    /\ RefitFailed
    /\ fit_pc = "RAISED"
    /\ fit_err = refit_call.err
    /\ Len(best_features) > 0
    /\ NoModel


---------------------------------------------------------------------------
(* Lines 665-682 of _clf_fit on what a refit function returns.  In fit     *)
(* these lines are behind the call of lines 651-661; here they start from  *)
(* a refit that has returned, as refit_reg and refit_simple return when    *)
(* they are called with the parameter names they have.                     *)

\* largest number of features handed to the refit
MaxBest == 3

\* the tags written before the refit (lines 432, 443, 475, and the Selector)
EarlierTags == {"NaN values", "Low importance", "Unable to WOE transform", "Selector"}

\* why a refit removes a column: refit_reg by the L1 penalty (line 35),
\* refit_simple for its sign (lines 80-82) or its p-value (lines 93-110)
RefitReasons(regularized) ==
    IF regularized THEN {"zero weight"} ELSE {"sign", "p-value"}

\* the mask a refit on k columns returns, with the reason of each removal;
\* refit_simple keeps a column at least
RefitReturns(regularized, k) ==
    {r \in [neg : [1..k -> BOOLEAN],
            why : [1..k -> RefitReasons(regularized) \cup {"kept"}]] :
        /\ \A i \in 1..k : r.neg[i] <=> r.why[i] = "kept"
        /\ regularized \/ \E i \in 1..k : r.neg[i]}

\* the calls: k features reach the refit, feature k + 1 was dropped before
TrailCalls ==
    UNION {[k : {kk}, regularized_refit : {reg}, out : RefitReturns(reg, kk),
            earlier : EarlierTags] : kk \in 1..MaxBest, reg \in BOOLEAN}

\* _clf_fit at line 665
InitTrail ==
    /\ RefitIdle
    /\ call \in TrailCalls
    /\ fit_pc = "LABEL"
    /\ fit_err = ""
    /\ features_fit = None
    /\ _weights = None
    /\ _intercept = None
    /\ _p_vals = None
    /\ best_features = Range(1, call.k + 1)
    /\ private_features_type = best_features
    /\ feature_history = [f \in 1..(call.k + 1) |->
                             IF f <= call.k THEN None ELSE Str(call.earlier)]
    /\ split_dict = None
    /\ woe_dict = None
    /\ tree_dict_opt = None
    /\ features_monotone_constraints = None
    /\ enc = None
    /\ result = <<>>
    /\ pool = None
    /\ valid_enc = None
    /\ refit_call = [fn |-> IF call.regularized_refit THEN "refit_reg"
                                                      ELSE "refit_simple",
                     x_val |-> None, entered |-> TRUE, err |-> ""]

\* lines 665-682
ClfFitLabel ==
    /\ fit_pc = "LABEL"
    /\ StoreModel(call.out.neg)
    /\ UNCHANGED <<call, private_features_type, tree_dict_opt, split_dict,
                   woe_dict, enc, result, pool, best_features, valid_enc,
                   refit_call>>
    /\ UNCHANGED <<refitVars, features_monotone_constraints>>

SpecTrail == InitTrail /\ [][ClfFitLabel]_vars

\* the features the refit of this call removed
Removed == {f \in Elems(best_features) : ~call.out.neg[f]}

---------------------------------------------------------------------------
(* Claims about the binning step of fit.                                   *)

\* what the bin search of a feature gives when it runs alone on the object
\* _infer_params left
Own(f) == TransformOf(f, InferTreeDictOpt(FitParams(call.force_single_split)))

\* the tasks of the pool returned in another order than they were handed out
OutOfOrder ==
    \E i, j \in 1..Len(pool.finished) :
        i < j /\ pool.finished[i] > pool.finished[j]

\* C13: with a pool (n_jobs > 1) as without, the results handed to the join
\* pair every feature with the result of its own bin search, in whatever
\* order the tasks return; starmap returns, and the join runs, only when no
\* task is running or waiting; and a returning task writes the result of its
\* own feature at its own position and nothing else.
C13_PoolEqualsSequential ==
    [][/\ fit_pc' = "JOIN" =>
              /\ Len(result') = Len(private_features_type')
              /\ \A f \in Elems(private_features_type') :
                    DictZip(private_features_type', result')[f] = Own(f)
       /\ (fit_pc = "POOL" /\ fit_pc' = "JOIN") =>
              /\ pool.next > Len(pool.tasks)
              /\ \A w \in DOMAIN pool.running : pool.running[w] = 0
       /\ (fit_pc = "POOL" /\ fit_pc' = "POOL") =>
              \A i \in DOMAIN pool.done :
                  pool'.done[i] # pool.done[i] =>
                      /\ pool.done[i] = Pending
                      /\ \E w \in DOMAIN pool.running : pool.running[w] = i
                      /\ pool'.done[i] = Own(pool.tasks[i])
       /\ (fit_pc = "JOIN" /\ fit_pc' = "ENCODE") =>
              split_dict' = [f \in {g \in Elems(private_features_type) :
                                       Own(g) # None} |-> Own(f)]
      ]_vars

\* a pool of two processes has returned the later task first, the two
\* features have different results, and the join has paired each feature
\* with its own
C13_Witness ==
    /\ fit_pc = "ENCODE"
    /\ call.n_jobs > 1
    /\ OutOfOrder
    /\ Len(result) > 1
    /\ result[1] # result[2]
    /\ \A f \in DOMAIN split_dict : split_dict[f] = Own(f)
    /\ Cardinality(DOMAIN split_dict) > 1


\* the features that reached the bin search of this call
Binned ==
    {f \in 1..call.k :
        feature_history[f] \notin {Str("NaN values"), Str("Low importance")}}

\* the join of lines 466-479 is taken
Joining == fit_pc = "JOIN" /\ fit_pc' = "ENCODE"

---------------------------------------------------------------------------
(* Further claims about refit_reg and refit_simple.                        *)

\* the grid of line 16 for the call
CallGrid == Grid(arg.l1_min_c, arg.l1_exp_step, arg.l1_base_step)

\* C15: when refit_reg returns without the sign constraint, every penalty of
\* the fitted path is at most max_penalty, the penalties increase, the last
\* one is max_penalty, one model was fitted per penalty, and the returned
\* model is the last one fitted: its non-zero weights, its intercept and the
\* mask of the non-zero weights.
C15_EndpointAtMaxPenalty ==
    (arg.fn = "refit_reg" /\ ~arg.interp /\ pc = "DONE") =>
        /\ Len(cs) > 0
        /\ \A k \in 1..Len(cs) : cs[k] <= arg.max_penalty
        /\ \A j, k \in 1..Len(cs) : j < k => cs[j] < cs[k]
        /\ cs[Len(cs)] = arg.max_penalty
        /\ Len(weights) = Len(cs)
        /\ Len(intercepts) = Len(cs)
        /\ ret = <<Take(weights[Len(cs)], NonZero(weights[Len(cs)])),
                   intercepts[Len(cs)],
                   NonZero(weights[Len(cs)])>>

\* refit_reg has returned without the sign constraint from a path of two
\* penalties: a grid point was cut for being above max_penalty and
\* max_penalty, which is no grid point, was added as the last penalty
C15_Witness ==
    /\ arg.fn = "refit_reg"
    /\ ~arg.interp
    /\ pc = "DONE"
    /\ Len(cs) > 1
    /\ Len(AtMost(CallGrid, arg.max_penalty)) < Len(CallGrid)
    /\ \A k \in 1..Len(CallGrid) : CallGrid[k] # arg.max_penalty
    /\ cs[Len(cs)] = arg.max_penalty
    /\ weights[1] # weights[Len(cs)]


\* C17: when the Hessian of calc_p_val is singular, on the training fit or
\* on the validation fit, refit_simple ends there in LinAlgError and returns
\* nothing; and whenever refit_simple returns, the last Hessian was regular
\* and the variances computed from it are finite positive numbers.
C17_SingularIsFatal ==
    [][/\ (arg.fn = "refit_simple" /\ H' = "singular"
              /\ pc \in {"CHECK_PVALUE", "CHECK_VALIDATION"}) =>
              /\ pc' = "FAILED"
              /\ err' = "LinAlgError"
              /\ ret' = <<>>
       /\ (arg.fn = "refit_simple" /\ pc' = "DONE") =>
              /\ H' = "regular"
              /\ \A k \in 1..Len(b_var') : b_var'[k] \in VarVals
              /\ \A k \in 1..Len(ret'[5].val) : ret'[5].val[k] \in VarVals
      ]_vars

\* refit_simple has fitted two kept columns, met a singular Hessian and
\* ended in LinAlgError with nothing returned
C17_Witness ==
    /\ arg.fn = "refit_simple"
    /\ pc = "FAILED"
    /\ err = "LinAlgError"
    /\ H = "singular"
    /\ ret = <<>>
    /\ Sum(sl_ok) >= 2
    /\ fits >= 1

---------------------------------------------------------------------------
(* Claims about the encoding and the refit dispatch of fit.                *)

\* C16: with oof_woe, an iteration of _train_encoding first encodes the
\* training column from fold tables, retaining nothing, and afterwards fits
\* the encoder on the full sample and retains it; when _train_encoding
\* returns, the encoder kept in self.woe_dict for every surviving feature
\* holds the full-sample table, while the training columns come from fold
\* tables; and the validation frame test_encoding makes is encoded from the
\* full-sample tables.
C16_FullTableRetained ==
    [][/\ (fit_pc = "ENCODE" /\ fit_pc' = "ENCODE" /\ call.oof_woe) =>
              IF enc.woe = None
              THEN /\ enc'.woe # None
                   /\ enc'.df_cod = Column(enc'.woe.feature, "folds")
                   /\ enc'.woe.table # "full"
                   /\ enc'.woe_dict = enc.woe_dict
              ELSE /\ enc'.woe_dict[enc.woe.feature].table = "full"
                   /\ enc'.woe_list[Len(enc'.woe_list)] = enc.df_cod
       /\ (fit_pc = "ENCODE" /\ fit_pc' = "SELECT") =>
              \A i \in 1..Len(private_features_type) :
                  /\ woe_dict'[private_features_type[i]].table = "full"
                  /\ call.oof_woe => enc.woe_list[i].table = "folds"
       /\ (fit_pc = "VALIDATION" /\ fit_pc' = "REFIT" /\ valid_enc' # None) =>
              \A i \in 1..Len(valid_enc'.columns) :
                  valid_enc'.columns[i].table = "full"
      ]_vars

\* an out-of-fold fit has reached the refit with a validation frame: the
\* training column of a selected feature comes from fold tables, its encoder
\* in self.woe_dict holds the full-sample table, and the validation column
\* was encoded from it
C16_Witness ==
    /\ fit_pc = "REFIT"
    /\ call.oof_woe
    /\ valid_enc # None
    /\ Len(best_features) > 0
    /\ \E i \in 1..Len(private_features_type) :
          /\ private_features_type[i] = best_features[1]
          /\ enc.woe_list[i] = Column(best_features[1], "folds")
    /\ woe_dict[best_features[1]].table = "full"
    /\ valid_enc.columns[1] = Column(best_features[1], "full")

-----------------------------------------------------------------------------
\* _infer_params on its own: the constraints the caller gives, the monotonic
\* flag and what roc_auc_score gives for each column are drawn in Init

\* what a caller's features_monotone_constraints can hold for a column
ConstraintVals ==
    {Absent, None, Str("auto"), Str("0"), PyInt(0), Str("1"), Str("-1"),
     PyInt(1)}

AucOutcomes ==
    {Raises("ValueError"), Raises("TypeError"), Auc(200), Auc(500), Auc(800)}

InferCalls(k) ==
    [k : {k}, monotonic : BOOLEAN, given : [1..k -> ConstraintVals],
     auc : [1..k -> AucOutcomes], force_single_split : {FALSE}]

InitInfer ==
    /\ RefitIdle
    /\ Constructed
    /\ \E k \in 1..MaxFeatures : call \in InferCalls(k)
    /\ fit_pc = "INFER"
    /\ fit_err = ""
    /\ tree_dict_opt = None
    /\ features_monotone_constraints = None
    /\ enc = None
    /\ result = <<>>
    /\ pool = None
    /\ best_features = <<>>
    /\ valid_enc = None
    /\ refit_call = None

\* lines 314-363: _infer_params; the loop of lines 353-363 over the columns
InferParams ==
    /\ fit_pc = "INFER"
    /\ fit_pc' = "INFERRED"
    /\ tree_dict_opt' = InferTreeDictOpt(FitParams(call.force_single_split))
    /\ features_monotone_constraints' =
          [col \in 1..call.k |->
              NewVal(Get(call.given, col), call.monotonic, call.auc[col])]
    /\ UNCHANGED <<call, fit_err, features_fit, _weights, _intercept, _p_vals,
                   feature_history, private_features_type, split_dict,
                   woe_dict, enc, result, pool, best_features, valid_enc,
                   refit_call>>
    /\ UNCHANGED refitVars

NextInfer == InferParams

SpecInfer == InitInfer /\ [][NextInfer]_vars

\* the three strings auto-detection can give
Directions == {Str("-1"), Str("0"), Str("1")}

\* what auto-detection gives for a column of the call
Detected(col) ==
    IF call.auc[col].kind = "raise" THEN Str("0")
    ELSE IF call.auc[col].val > 500 THEN Str("1")
    ELSE IF call.auc[col].val < 500 THEN Str("-1")
    ELSE Str("0")

\* C18: after _infer_params every column has a constraint: 'auto' gives the
\* detected direction; '0', 0 or no entry give '0' when monotonic is false and
\* the detected direction when it is true; any other value is kept as given;
\* the detected direction is '-1', '0' or '1', and '0' when roc_auc_score
\* raised
C18_ConstraintResolved ==
    fit_pc = "INFERRED" =>
        /\ DOMAIN features_monotone_constraints = 1..call.k
        /\ \A col \in 1..call.k :
              LET given == call.given[col]
                  new_val == features_monotone_constraints[col]
              IN  /\ new_val # None /\ new_val # Absent
                  /\ given = Str("auto") => new_val = Detected(col)
                  /\ given \in {Str("0"), PyInt(0), None, Absent} =>
                        new_val = IF call.monotonic THEN Detected(col)
                                  ELSE Str("0")
                  /\ given \notin {Str("auto"), Str("0"), PyInt(0), None,
                                   Absent} => new_val = given
                  /\ Detected(col) \in Directions
                  /\ call.auc[col].kind = "raise" => Detected(col) = Str("0")

\* monotonic is set; one column was given no entry and has a decreasing
\* one-dimensional AUC, the other was given '1'
C18_Witness ==
    /\ fit_pc = "INFERRED"
    /\ call.monotonic
    /\ call.k = 2
    /\ call.given[1] = Absent
    /\ call.auc[1] = Auc(200)
    /\ features_monotone_constraints[1] = Str("-1")
    /\ call.given[2] = Str("1")
    /\ features_monotone_constraints[2] = Str("1")

-----------------------------------------------------------------------------
\* The grid of one feature: _infer_params, then feature_woe_transform for the
\* feature; the parameters and the facts of the column are drawn in Init

\* self.params after lines 314-318; min_bin_mults in halves, so <<3>> is a
\* multiplier of 1.5; max_bin_count 0 is a falsy bin limit
GridCalls ==
    [p : [min_bin_size : {7, 10}, th_const : {5},
          min_bin_mults : {<<4, 8>>, <<3>>},
          min_gains_to_split : {<<0, 1, 2>>},
          force_single_split : BOOLEAN],
     max_bin_count : {0, 2, 5},
     facts : FeatureFacts,
     constr : {Str("-1"), Str("0"), Str("1")}]

InitGrid ==
    /\ RefitIdle
    /\ Constructed
    /\ call \in GridCalls
    /\ fit_pc = "INFER"
    /\ fit_err = ""
    /\ tree_dict_opt = None
    /\ features_monotone_constraints = None
    /\ enc = None
    /\ result = <<>>
    /\ pool = None
    /\ best_features = <<>>
    /\ valid_enc = None
    /\ refit_call = None

\* lines 314-326 and 344-363, for the one feature
GridInfer ==
    /\ fit_pc = "INFER"
    /\ fit_pc' = "BINNING"
    /\ tree_dict_opt' = InferTreeDictOpt(call.p)
    /\ features_monotone_constraints' =
          [col \in {1} |-> NewVal(call.constr, FALSE, Raises("ValueError"))]
    /\ UNCHANGED <<call, fit_err, features_fit, _weights, _intercept, _p_vals,
                   feature_history, private_features_type, split_dict,
                   woe_dict, enc, result, pool, best_features, valid_enc,
                   refit_call>>
    /\ UNCHANGED refitVars

\* lines 519-599: feature_woe_transform for the feature
GridTransform ==
    /\ fit_pc = "BINNING"
    /\ fit_pc' = "JOIN"
    /\ result' = <<FeatureWoeTransform(1, call.facts,
                       features_monotone_constraints[1], call.max_bin_count,
                       tree_dict_opt, call.p)>>
    /\ tree_dict_opt' = TreeDictOptAfter(call.facts, call.max_bin_count,
                                         tree_dict_opt, call.p)
    /\ UNCHANGED <<call, fit_err, features_fit, _weights, _intercept, _p_vals,
                   feature_history, private_features_type, split_dict,
                   woe_dict, enc, pool, best_features, valid_enc, refit_call>>
    /\ UNCHANGED <<refitVars, features_monotone_constraints>>

NextGrid == GridInfer \/ GridTransform

SpecGrid == InitGrid /\ [][NextGrid]_vars

\* the bin search of the call ran on a grid
Searched == fit_pc = "JOIN" /\ result[1] # None /\ ~result[1].trivial

\* min_bin_size, then int(m * min_bin_size) for each multiplier m
BinSizes ==
    <<call.p.min_bin_size>> \o
    [i \in 1..Len(call.p.min_bin_mults) |->
        (call.p.min_bin_mults[i] * call.p.min_bin_size) \div 2]

\* the override condition of the call
Override ==
    /\ call.p.force_single_split
    /\ call.p.th_const < call.facts.min_size
    /\ call.facts.min_size < call.p.min_bin_size

\* C19 as stated: the grid is the bin sizes, the gains, the leaf counts
\* 2..max_bins and the constraint, and the override only restricts the leaf
\* counts to 2
C19_OverrideOnlyLeaves ==
    Searched =>
        LET grid == result[1].grid
        IN  /\ grid.min_data_in_bin = BinSizes
            /\ grid.min_gain_to_split = call.p.min_gains_to_split
            /\ grid.monotone_constraints = <<call.constr>>
            /\ "num_leaves" \in DOMAIN grid
            /\ grid.num_leaves = IF Override THEN <<2>>
                                 ELSE Range(2, call.max_bin_count + 1)

\* C19: the grid always holds the gains and the constraint of the feature.
\* With a bin limit and no override it holds the bin sizes, the leaf counts
\* 2..max_bins, min_data_in_leaf = min_bin_size and the fixed
\* bin_construct_sample_cnt; under the override (bin limit set) the leaf
\* count is 2, min_data_in_leaf is the number of rows outside the dominant
\* value and min_data_in_bin is 3; without a bin limit there are no leaf
\* counts and no override
C19_GridOfCall ==
    Searched =>
        LET grid == result[1].grid
        IN  /\ grid.min_gain_to_split = call.p.min_gains_to_split
            /\ grid.monotone_constraints = <<call.constr>>
            /\ IF call.max_bin_count = 0
               THEN /\ DOMAIN grid = {"min_data_in_leaf", "min_data_in_bin",
                                      "min_gain_to_split",
                                      "monotone_constraints"}
                    /\ grid.min_data_in_leaf = <<call.p.min_bin_size>>
                    /\ grid.min_data_in_bin = BinSizes
               ELSE /\ DOMAIN grid = {"min_data_in_leaf", "min_data_in_bin",
                                      "min_gain_to_split",
                                      "monotone_constraints", "num_leaves",
                                      "bin_construct_sample_cnt"}
                    /\ grid.bin_construct_sample_cnt = <<100000000>>
                    /\ IF Override
                       THEN /\ grid.num_leaves = <<2>>
                            /\ grid.min_data_in_leaf = <<call.facts.min_size>>
                            /\ grid.min_data_in_bin = <<3>>
                       ELSE /\ grid.num_leaves =
                                  Range(2, call.max_bin_count + 1)
                            /\ grid.min_data_in_leaf = <<call.p.min_bin_size>>
                            /\ grid.min_data_in_bin = BinSizes

\* the override applied: 7 rows outside the dominant value, between
\* th_const 5 and min_bin_size 10, and the search ran with 3 as the only
\* min_data_in_bin
C19_Witness ==
    /\ Searched
    /\ Override
    /\ call.max_bin_count = 5
    /\ call.facts.min_size = 7
    /\ result[1].grid.min_data_in_bin = <<3>>
    /\ result[1].grid.num_leaves = <<2>>

-----------------------------------------------------------------------------
\* C20: the refit step of fit enters exactly the refit function chosen by
\* regularized_refit; the encoded validation frame reaches it when
\* regularized_refit is off and a validation frame was given, and no
\* validation data reaches it otherwise
C20_RefitDispatched ==
    [][(fit_pc = "REFIT" /\ fit_pc' # "REFIT") =>
          /\ refit_call'.entered
          /\ refit_call'.fn = IF call.regularized_refit THEN "refit_reg"
                                                        ELSE "refit_simple"
          /\ refit_call'.x_val =
                IF call.validation /\ ~call.regularized_refit
                THEN TestEncoding(best_features)
                ELSE None
      ]_vars

-----------------------------------------------------------------------------
(* A refit function and lines 663-682 of _clf_fit together: the call runs  *)
(* as refit_reg and refit_simple run when they are called with the         *)
(* parameter names they have, and what it returns is labelled and stored.  *)

\* the names of the columns of data_enc[features]: column j holds the
\* feature named 10 + j
FeatureNames(k) == [j \in 1..k |-> 10 + j]

\* the refit calls of _clf_fit; max_penalty 1 is below the grid
LabelArgs ==
    SimpleArgs \cup {a \in RegArgs : a.max_penalty \in {1, 20}}

\* _clf_fit at lines 650-661, the refit function entered
InitLabel ==
    /\ arg \in LabelArgs
    /\ pc = IF arg.fn = "refit_simple" THEN "FIT" ELSE "GRID"
    /\ err = ""
    /\ ret = <<>>
    /\ sl_ok = IF arg.fn = "refit_simple" THEN Ones(arg.ncols) ELSE <<>>
    /\ n = -1
    /\ ok_idx = <<>>
    /\ coef = <<>>
    /\ intercept = 0
    /\ p_vals = <<>>
    /\ b_var = <<>>
    /\ model_p_vals = <<>>
    /\ model_b_var = Unbound
    /\ x_val_cols = <<>>
    /\ fits = 0
    /\ H = "none"
    /\ cs = <<>>
    /\ weights = <<>>
    /\ intercepts = <<>>
    /\ call = [k |-> arg.ncols, regularized_refit |-> arg.fn = "refit_reg"]
    /\ fit_pc = "CALLED"
    /\ fit_err = ""
    /\ features_fit = None
    /\ _weights = None
    /\ _intercept = None
    /\ _p_vals = None
    /\ best_features = FeatureNames(arg.ncols)
    /\ private_features_type = best_features
    /\ feature_history = [f \in Elems(best_features) |-> None]
    /\ split_dict = None
    /\ woe_dict = None
    /\ tree_dict_opt = None
    /\ features_monotone_constraints = None
    /\ enc = None
    /\ result = <<>>
    /\ pool = None
    /\ valid_enc = None
    /\ refit_call = [fn |-> arg.fn, x_val |-> None, entered |-> TRUE,
                     err |-> ""]

\* every feature handed to the refit is taken as kept
FeatsAll(features, neg) == features

\* line 665: _feats = np.array(features)[neg]
Feats(features, neg) == Take(features, neg)

\* lines 663-682 and 507-513: what the refit returned is labelled with the
\* names of the kept features and stored; pandas raises ValueError when a
\* Series gets an index of another length, numpy raises IndexError when the
\* mask has another length than the names
ClfFitReturn ==
    /\ fit_pc = "CALLED"
    /\ pc = "DONE"
    /\ LET w == ret[1]
           i == ret[2]
           neg == ret[3]
       IN  IF Len(neg) # Len(best_features)
           THEN /\ FitRaise("IndexError")
                /\ UNCHANGED feature_history
           ELSE LET _feats == Feats(best_features, neg) IN
                IF Len(w) # Len(_feats)
                THEN /\ FitRaise("ValueError")
                     /\ UNCHANGED feature_history
                ELSE /\ feature_history' =
                          Tagged(feature_history, Elems(best_features),
                                 Elems(_feats),
                                 "Pruned during regression refit")
                     /\ IF ~call.regularized_refit
                           /\ Len(ret[4]) # Len(_feats) + 1
                        THEN FitRaise("ValueError")
                        ELSE /\ features_fit' =
                                  [kind |-> "Series", index |-> _feats,
                                   values |-> w]
                             /\ _weights' = NdArray(w)
                             /\ _intercept' = NdArray(<<i>>)
                             /\ _p_vals' =
                                  IF call.regularized_refit
                                  THEN _p_vals
                                  ELSE [kind |-> "Series",
                                        index |-> Append(_feats, "Intercept_"),
                                        values |-> ret[4]]
                             /\ fit_pc' = "FITTED"
                             /\ fit_err' = fit_err
    /\ UNCHANGED <<call, private_features_type, tree_dict_opt, split_dict,
                   woe_dict, enc, result, pool, best_features, valid_enc,
                   refit_call>>
    /\ UNCHANGED <<refitVars, features_monotone_constraints>>

\* lines 650-661: the exception of the refit function leaves _clf_fit and
\* fit
ClfFitRaise ==
    /\ fit_pc = "CALLED"
    /\ pc = "FAILED"
    /\ FitRaise(err)
    /\ UNCHANGED <<call, feature_history, private_features_type,
                   tree_dict_opt, split_dict, woe_dict, enc, result, pool,
                   best_features, valid_enc, refit_call>>
    /\ UNCHANGED <<refitVars, features_monotone_constraints>>

NextLabel == NextSimple \/ NextReg \/ ClfFitReturn \/ ClfFitRaise

SpecLabel == InitLabel /\ [][NextLabel]_vars

\* the place of column j among the true entries of a mask
Rank(mask, j) == Cardinality({i \in 1..j : mask[i]})

\* the refit function has returned
Returned == pc = "DONE"

=============================================================================
